---- MODULE Spec2Model ----
(***************************************************************************)
(* A model of intended_for.py: the pairing of fieldmap runs with the       *)
(* functional images of one (subject, session) unit, the write of the      *)
(* IntendedFor field into sidecar documents, and the batch loop of main.   *)
(*                                                                         *)
(* Reading of the source.  Python lists are sequences; a Python dict is a  *)
(* sequence of [key, value] entries in insertion order.  Indices kept by   *)
(* the code (fmap_iter, func_iter) keep their 0-based values.  A file path *)
(* is a record [kind, id, ext, rel]: id is the rank of the scan in the     *)
(* layout, which pybids returns ordered by path, ext is the suffix and     *)
(* rel tells the session-relative form main builds.  A unit is a (subject, *)
(* session) pair, a task label is a positive number and 0 is no task.      *)
(* The names pair_fmap and insert_edit_json used by sefm_select and main   *)
(* are read as the class FieldmapPairing and its method insert_edit_json,  *)
(* the only definitions of the file with those signatures.                 *)
(***************************************************************************)
EXTENDS Integers, Sequences, FiniteSets, TLC

\* Bounds of the layouts drawn for the stepwise run of pair_by_closest.
MaxFmap == 3
MaxRun == 3
MaxSN == 3
MaxFunc == 2

\* Bounds of the layouts drawn for the study of ties under pair_by_closest.
TieFmap == 2
TieRun == 2
TieSN == 2
TieFunc == 1

\* Bounds of the layouts drawn for one unit run through main.
UnitFmap == 4
UnitRun == 2
UnitSN == 2
UnitFunc == 1

\* Bounds of the batch: units, task labels.
MaxUnits == 2
MaxTasks == 2

\* Bound of the number of calls of insert_edit_json made on one document.
MaxCalls == 3

VARIABLES
    fmap,       \* layout: fieldmap scans [unit, run, sn, pol, task], in path order
    func,       \* layout: functional scans [unit, sn, task], in path order
    subsess,    \* the (subject, session) units, as read_bids_layout returns them
    tasks,      \* args.tasks
    strategy,   \* args.strategy
    debug,      \* args.debug
    task_i,     \* main: index of the outer loop over tasks
    unit_i,     \* main: index of the loop over subsess
    attempts,   \* history: one entry per execution of the try block of main
    docs,       \* sidecar store: path -> JSON document
    log,        \* lines printed so far
    writes,     \* completed insert_edit_json calls, in order
    pc,         \* position of the unit's processing
    fmap_iter,  \* pair_by_closest: cursor over fmap_keys
    func_iter,  \* pair_by_closest: loop index over func_keys
    pairing,    \* pair_by_closest: the dict being built
    write_iter, \* sefm_select: position in `for f in func_fmap_map`
    result      \* outcome of the last call: [raised, exc, pos, neg]

vars == <<fmap, func, subsess, tasks, strategy, debug, task_i, unit_i, attempts,
          docs, log, writes, pc, fmap_iter, func_iter, pairing, write_iter, result>>

----------------------------------------------------------------------------
(* Paths *)

Path(k, i, e, r) == [kind |-> k, id |-> i, ext |-> e, rel |-> r]

\* selected_pos = '' (src line 108)
EmptyPath == Path("none", 0, "", FALSE)

FmapJson(i) == Path("fmap", i, "json", FALSE)
FmapNii(i) == Path("fmap", i, "nii.gz", FALSE)
FuncNii(j) == Path("func", j, "nii.gz", FALSE)
FuncJson(j) == Path("func", j, "json", FALSE)

\* f.replace('.nii.gz', '.json')
ReplaceNiiByJson(p) == IF p.ext = "nii.gz" THEN [p EXCEPT !.ext = "json"] ELSE p

\* f"{p.split('.nii.gz')[0]}.json"
SplitNiiAddJson(p) ==
    IF p.ext = "nii.gz" THEN [p EXCEPT !.ext = "json"]
    ELSE [p EXCEPT !.ext = IF p.ext = "" THEN "json" ELSE "json.json"]

\* f"ses-{sessions}/func/{x.filename}"
SessionRelative(p) == [p EXCEPT !.rel = TRUE]

----------------------------------------------------------------------------
(* Python dicts and sorted() *)

DictHas(d, k) == \E i \in 1..Len(d) : d[i].key = k
DictGet(d, k) == d[CHOOSE i \in 1..Len(d) : d[i].key = k].value
DictSet(d, k, v) ==
    IF DictHas(d, k)
    THEN [i \in 1..Len(d) |-> IF d[i].key = k THEN [key |-> k, value |-> v] ELSE d[i]]
    ELSE Append(d, [key |-> k, value |-> v])
DictKeys(d) == {d[i].key : i \in 1..Len(d)}

MinOf(S) == CHOOSE x \in S : \A y \in S : x <= y
MaxOf(S) == CHOOSE x \in S : \A y \in S : x >= y

RECURSIVE Sorted(_)
Sorted(S) == IF S = {} THEN <<>> ELSE <<MinOf(S)>> \o Sorted(S \ {MinOf(S)})

----------------------------------------------------------------------------
(* The layout (pybids) *)

Indices(s) == [i \in 1..Len(s) |-> i]

\* layout.get(subject, session, datatype='fmap', extension='.json'[, acquisition=task])
layout_get_fmap(fm, sub, task) ==
    SelectSeq(Indices(fm), LAMBDA i : fm[i].unit = sub /\ (task = 0 \/ fm[i].task = task))

\* layout.get(subject, session, datatype='func', extension='.nii.gz'[, task=task])
layout_get_func(fn, sub, task) ==
    SelectSeq(Indices(fn), LAMBDA j : fn[j].unit = sub /\ (task = 0 \/ fn[j].task = task))

----------------------------------------------------------------------------
(* FieldmapPairing *)

\* get_func
get_func(fn, sub, task) == layout_get_func(fn, sub, task)

\* get_fmap_runs: dict run -> list of fieldmap sidecars, first-seen run order
RECURSIVE get_fmap_runs_from(_, _, _, _)
get_fmap_runs_from(fm, files, k, fmap_runs) ==
    IF k > Len(files) THEN fmap_runs
    ELSE LET f == files[k]
             f_run == fm[f].run
         IN IF DictHas(fmap_runs, f_run)
            THEN get_fmap_runs_from(fm, files, k + 1,
                     DictSet(fmap_runs, f_run, Append(DictGet(fmap_runs, f_run), f)))
            ELSE get_fmap_runs_from(fm, files, k + 1, DictSet(fmap_runs, f_run, <<f>>))

get_fmap_runs(fm, sub, task) == get_fmap_runs_from(fm, layout_get_fmap(fm, sub, task), 1, <<>>)

\* min([f.get_metadata()['SeriesNumber'] for f in fmap_runs[run]])
min_series_number(fm, files) == MinOf({fm[files[k]].sn : k \in 1..Len(files)})

\* [f.path for f in fmap_runs[run]]
fmap_paths(files) == [k \in 1..Len(files) |-> FmapJson(files[k])]

\* fmap_series_nums: dict min SeriesNumber -> paths of the run (src lines 181-184)
RECURSIVE fmap_series_nums_from(_, _, _, _)
fmap_series_nums_from(fm, fmap_runs, r, acc) ==
    IF r > Len(fmap_runs) THEN acc
    ELSE LET files == fmap_runs[r].value IN
         fmap_series_nums_from(fm, fmap_runs, r + 1,
             DictSet(acc, min_series_number(fm, files), fmap_paths(files)))

fmap_series_nums(fm, sub) == fmap_series_nums_from(fm, get_fmap_runs(fm, sub, 0), 1, <<>>)

\* func_series_nums: dict SeriesNumber -> f.path (src line 187)
RECURSIVE func_series_nums_from(_, _, _, _)
func_series_nums_from(fn, files, k, acc) ==
    IF k > Len(files) THEN acc
    ELSE func_series_nums_from(fn, files, k + 1,
             DictSet(acc, fn[files[k]].sn, FuncNii(files[k])))

func_series_nums(fn, sub) == func_series_nums_from(fn, get_func(fn, sub, 0), 1, <<>>)

fmap_keys(fm, sub) == Sorted(DictKeys(fmap_series_nums(fm, sub)))
func_keys(fn, sub) == Sorted(DictKeys(func_series_nums(fn, sub)))

\* src line 197: the evaluation of fmap_keys[fmap_iter + 1] is out of range
LookaheadIndexError(fk, g) == g # Len(fk) - 1 /\ g + 1 >= Len(fk)

\* Mutant: the comparison of line 197 made non-strict.
KeepCurrentFmapOrEqual(fk, g, key) == g = Len(fk) - 1 \/ key <= fk[g + 2]

\* src line 197: the condition under which the cursor stays on the current run
KeepCurrentFmap(fk, g, key) == g = Len(fk) - 1 \/ key < fk[g + 2]

\* src lines 197-202: the cursor after one iteration
NextFmapIter(fk, g, key) == IF KeepCurrentFmap(fk, g, key) THEN g ELSE g + 1

\* src lines 195-202: one iteration of the loop over func_keys
pair_by_closest_iter(fm, fn, sub, st, i) ==
    LET fk == fmap_keys(fm, sub)
        key == func_keys(fn, sub)[i + 1]
    IN IF st.raised THEN st
       ELSE IF LookaheadIndexError(fk, st.fmap_iter)
       THEN [st EXCEPT !.raised = TRUE]
       ELSE LET g == NextFmapIter(fk, st.fmap_iter, key) IN
            [fmap_iter |-> g,
             pairing |-> DictSet(st.pairing,
                                 DictGet(func_series_nums(fn, sub), key),
                                 DictGet(fmap_series_nums(fm, sub), fk[g + 1])),
             raised |-> FALSE]

\* pair_by_closest, whole: the loop body folded over func_keys
RECURSIVE pair_by_closest_from(_, _, _, _, _)
pair_by_closest_from(fm, fn, sub, st, i) ==
    IF i >= Len(func_keys(fn, sub)) THEN st
    ELSE pair_by_closest_from(fm, fn, sub, pair_by_closest_iter(fm, fn, sub, st, i), i + 1)

pair_by_closest(fm, fn, sub) ==
    pair_by_closest_from(fm, fn, sub,
        [fmap_iter |-> 0, pairing |-> <<>>, raised |-> FALSE], 0)

----------------------------------------------------------------------------
(* Sidecar documents.  An I/O state is [docs, log, writes, raised, exc].   *)

LogLine(k, p, u) == [kind |-> k, path |-> p, unit |-> u]

Raise(io, e) == [io EXCEPT !.raised = TRUE, !.exc = e]
Emit(io, k, p, u) == [io EXCEPT !.log = Append(@, LogLine(k, p, u))]

\* Mutant: the warning printed whenever the field is present.
insert_edit_json_msg_present(data, json_field, value) ==
    IF json_field \in DOMAIN data THEN "warning" ELSE "insert"

\* insert_edit_json: the message printed (src lines 208-211)
insert_edit_json_msg(data, json_field, value) ==
    IF json_field \in DOMAIN data /\ data[json_field] # value
    THEN "warning" ELSE "insert"

\* insert_edit_json: the document written back (src lines 213-215)
insert_edit_json_data(data, json_field, value) ==
    [k \in DOMAIN data \cup {json_field} |-> IF k = json_field THEN value ELSE data[k]]

\* insert_edit_json (src lines 205-216); open() fails on a path that does not exist
insert_edit_json(io, json_path, json_field, value) ==
    IF io.raised THEN io
    ELSE IF json_path \notin DOMAIN io.docs THEN Raise(io, "FileNotFoundError")
    ELSE LET data == io.docs[json_path] IN
         [io EXCEPT
            !.log = Append(@, LogLine(insert_edit_json_msg(data, json_field, value),
                                      json_path, 0)),
            !.docs = [@ EXCEPT ![json_path] = insert_edit_json_data(data, json_field, value)],
            !.writes = Append(@, [path |-> json_path, field |-> json_field,
                                  value |-> value, read |-> data])]

\* pair_by_last (src lines 167-175)
pair_by_last(fm, fn, sub, task, io) ==
    LET io1 == Emit(io, "get_func", EmptyPath, sub)
        fmap_runs == get_fmap_runs(fm, sub, task)
    IN IF fmap_runs = <<>> THEN Raise(io1, "IndexError")
       ELSE LET last_fmap_pair == DictGet(fmap_runs, MaxOf(DictKeys(fmap_runs)))
                files == get_func(fn, sub, task)
                func_paths == [k \in 1..Len(files) |-> FuncNii(files[k])]
                write[k \in 0..Len(last_fmap_pair)] ==
                    IF k = 0 THEN io1
                    ELSE insert_edit_json(write[k - 1], FmapJson(last_fmap_pair[k]),
                                          "IntendedFor", func_paths)
            IN write[Len(last_fmap_pair)]

----------------------------------------------------------------------------
(* sefm_select and main *)

\* src lines 62-65, 79-82: the files of fmap_dir of one polarity, sorted by path
sorted_list(fm, sub, task, pol) ==
    SelectSeq(Indices(fm), LAMBDA i : /\ fm[i].unit = sub
                                      /\ fm[i].pol = pol
                                      /\ (task = 0 \/ fm[i].task = task))

\* src lines 101-103: zip(sorted_list_pos, sorted_list_neg)
zip_pairs(pos, neg) ==
    [k \in 1..(IF Len(pos) <= Len(neg) THEN Len(pos) ELSE Len(neg)) |-> <<pos[k], neg[k]>>]

\* src lines 119-123: the writes of the closest branch, one per key of func_fmap_map
RECURSIVE sefm_write_from(_, _, _)
sefm_write_from(func_fmap_map, k, io) ==
    IF k > Len(func_fmap_map) THEN io
    ELSE sefm_write_from(func_fmap_map, k + 1,
             insert_edit_json(io, ReplaceNiiByJson(func_fmap_map[k].key),
                              "IntendedFor", func_fmap_map[k].value))

\* sefm_select (src lines 49-125): [io, pos, neg]
sefm_select(fm, fn, sub, task, strat, io) ==
    LET pairs == zip_pairs(sorted_list(fm, sub, task, "AP"), sorted_list(fm, sub, task, "PA"))
        io1 == Emit(io, "pairing", EmptyPath, sub)
        io2 == IF pairs = <<>> THEN Emit(io1, "no_files", EmptyPath, sub) ELSE io1
    IN IF strat = "last"
       THEN IF pairs = <<>>
            THEN [io |-> Raise(io2, "IndexError"), pos |-> EmptyPath, neg |-> EmptyPath]
            ELSE [io |-> io2,
                  pos |-> FmapNii(pairs[Len(pairs)][1]),
                  neg |-> FmapNii(pairs[Len(pairs)][2])]
       ELSE IF strat = "eta_square"
       THEN [io |-> io2, pos |-> EmptyPath, neg |-> EmptyPath]
       ELSE IF strat = "closest"
       THEN LET x == pair_by_closest(fm, fn, sub)
                io3 == Emit(io2, "get_func", EmptyPath, sub)
            IN [io |-> IF x.raised THEN Raise(io3, "IndexError")
                       ELSE sefm_write_from(x.pairing, 1, io3),
                pos |-> EmptyPath, neg |-> EmptyPath]
       ELSE [io |-> io2, pos |-> EmptyPath, neg |-> EmptyPath]

\* main, the try block and its except clause (src lines 275-294, 298-316)
main_try(fm, fn, sub, task, strat, dbg, io) ==
    LET sel == sefm_select(fm, fn, sub, task, strat, io)
        raw_func_list == layout_get_func(fn, sub, 0)
        kept == SelectSeq(raw_func_list, LAMBDA j : task = 0 \/ fn[j].task = task)
        func_list == [k \in 1..Len(kept) |-> SessionRelative(FuncNii(kept[k]))]
        selected_pos_json == SplitNiiAddJson(sel.pos)
        selected_neg_json == SplitNiiAddJson(sel.neg)
        done == IF sel.io.raised THEN sel.io
                ELSE IF dbg THEN Emit(sel.io, "debug", selected_pos_json, sub)
                ELSE insert_edit_json(
                         insert_edit_json(sel.io, selected_pos_json, "IntendedFor", func_list),
                         selected_neg_json, "IntendedFor", func_list)
    IN IF done.raised THEN Emit(done, "error", EmptyPath, sub) ELSE done

----------------------------------------------------------------------------
(* Initial states *)

SeqsUpTo(S, n) == UNION {[1..k -> S] : k \in 0..n}

FmapScans(units, runs, sns, pols, tks) ==
    [unit : units, run : runs, sn : sns, pol : pols, task : tks]
FuncScans(units, sns, tks) == [unit : units, sn : sns, task : tks]

Polarities == {"AP", "PA"}
Strategies == {"last", "closest", "eta_squared"}

\* Every scan of the layout has a sidecar; it holds the scan's SeriesNumber.
SidecarsOf(fm, fn) ==
    [p \in {FmapJson(i) : i \in 1..Len(fm)} \cup {FuncJson(j) : j \in 1..Len(fn)} |->
        [SeriesNumber |-> IF p.kind = "fmap" THEN fm[p.id].sn ELSE fn[p.id].sn]]

NoResult == [raised |-> FALSE, exc |-> "", pos |-> EmptyPath, neg |-> EmptyPath]

InitRest ==
    /\ task_i = 0 /\ unit_i = 0 /\ attempts = <<>>
    /\ docs = SidecarsOf(fmap, func)
    /\ log = <<>> /\ writes = <<>>
    /\ fmap_iter = 0 /\ func_iter = 0 /\ pairing = <<>> /\ write_iter = 0
    /\ result = NoResult

\* One unit, no task list, strategy closest: the layouts of the stepwise run.
InitLayout(nf, nr, ns, nfn) ==
    /\ fmap \in SeqsUpTo(FmapScans({1}, 1..nr, 1..ns, Polarities, {1}), nf)
    /\ func \in SeqsUpTo(FuncScans({1}, 1..ns, {1}), nfn)
    /\ subsess = <<1>> /\ tasks = <<>>

InitPairing ==
    /\ InitLayout(MaxFmap, MaxRun, MaxSN, MaxFunc)
    /\ strategy = "closest" /\ debug = FALSE
    /\ pc = "call"
    /\ InitRest

InitTie ==
    /\ InitLayout(TieFmap, TieRun, TieSN, TieFunc)
    /\ strategy = "closest" /\ debug = FALSE
    /\ pc = "call"
    /\ InitRest

InitUnit ==
    /\ InitLayout(UnitFmap, UnitRun, UnitSN, UnitFunc)
    /\ strategy \in Strategies /\ debug \in BOOLEAN
    /\ pc = "main"
    /\ InitRest

\* The fieldmaps a unit of the batch may hold: none, one polarity, a pair.
Kits == {<<>>, <<"AP">>, <<"AP", "PA">>}

RECURSIVE BatchFmap(_, _)
BatchFmap(kit, u) ==
    IF u = 0 THEN <<>>
    ELSE BatchFmap(kit, u - 1) \o
         [k \in 1..Len(kit[u]) |->
             [unit |-> u, run |-> 1, sn |-> k, pol |-> kit[u][k], task |-> 1]]

BatchFunc(n) == [u \in 1..n |-> [unit |-> u, sn |-> 3, task |-> 1]]

InitBatch ==
    /\ \E n \in 1..MaxUnits : \E kit \in [1..n -> Kits] :
          /\ subsess = [u \in 1..n |-> u]
          /\ fmap = BatchFmap(kit, n)
          /\ func = BatchFunc(n)
    /\ \E k \in 0..MaxTasks : tasks = [t \in 1..k |-> t]
    /\ strategy \in Strategies /\ debug \in BOOLEAN
    /\ pc = "main"
    /\ InitRest

\* The values written to IntendedFor in the study of insert_edit_json.
UpsertValues == SeqsUpTo({FuncNii(1), FuncNii(2)}, 2)

InitUpsert ==
    /\ fmap = <<[unit |-> 1, run |-> 1, sn |-> 1, pol |-> "AP", task |-> 1]>>
    /\ func = BatchFunc(2)
    /\ subsess = <<1>> /\ tasks = <<>>
    /\ strategy = "last" /\ debug = FALSE
    /\ pc = "upsert"
    /\ task_i = 0 /\ unit_i = 0 /\ attempts = <<>>
    /\ \E d \in {[SeriesNumber |-> 1]}
                \cup {[SeriesNumber |-> 1, IntendedFor |-> v] : v \in UpsertValues} :
          docs = [p \in {FmapJson(1)} |-> d]
    /\ log = <<>> /\ writes = <<>>
    /\ fmap_iter = 0 /\ func_iter = 0 /\ pairing = <<>> /\ write_iter = 0
    /\ result = NoResult

----------------------------------------------------------------------------
(* Actions *)

layoutVars == <<fmap, func, subsess, tasks, strategy, debug>>
mainVars == <<task_i, unit_i, attempts>>
closestVars == <<fmap_iter, func_iter, pairing, write_iter>>

IO == [docs |-> docs, log |-> log, writes |-> writes, raised |-> FALSE, exc |-> ""]

SetIO(io) ==
    /\ docs' = io.docs
    /\ log' = io.log
    /\ writes' = io.writes
    /\ result' = [NoResult EXCEPT !.raised = io.raised, !.exc = io.exc]

\* sefm_select, strategy closest, up to the loop of pair_by_closest
\* (src lines 60-106, 119-120, 178-193)
SefmSelectBegin ==
    /\ pc = "call"
    /\ LET sub == subsess[1]
           pairs == zip_pairs(sorted_list(fmap, sub, 0, "AP"), sorted_list(fmap, sub, 0, "PA"))
           io1 == Emit(IO, "pairing", EmptyPath, sub)
           io2 == IF pairs = <<>> THEN Emit(io1, "no_files", EmptyPath, sub) ELSE io1
       IN SetIO(Emit(io2, "get_func", EmptyPath, sub))
    /\ fmap_iter' = 0 /\ func_iter' = 0 /\ pairing' = <<>>
    /\ pc' = "pairing"
    /\ UNCHANGED <<layoutVars, mainVars, write_iter>>

\* pair_by_closest: one iteration of the loop (src lines 195-202)
PairByClosestIter ==
    /\ pc = "pairing"
    /\ func_iter < Len(func_keys(func, subsess[1]))
    /\ LET st == pair_by_closest_iter(fmap, func, subsess[1],
                     [fmap_iter |-> fmap_iter, pairing |-> pairing, raised |-> FALSE],
                     func_iter)
       IN IF st.raised
          THEN /\ pc' = "raised"
               /\ result' = [NoResult EXCEPT !.raised = TRUE, !.exc = "IndexError"]
               /\ UNCHANGED <<fmap_iter, func_iter, pairing>>
          ELSE /\ pc' = "pairing"
               /\ fmap_iter' = st.fmap_iter
               /\ pairing' = st.pairing
               /\ func_iter' = func_iter + 1
               /\ UNCHANGED result
    /\ UNCHANGED <<layoutVars, mainVars, docs, log, writes, write_iter>>

\* pair_by_closest: return pairing (src line 203)
PairByClosestReturn ==
    /\ pc = "pairing"
    /\ func_iter = Len(func_keys(func, subsess[1]))
    /\ pc' = "paired"
    /\ write_iter' = 0
    /\ UNCHANGED <<layoutVars, mainVars, docs, log, writes, fmap_iter, func_iter,
                   pairing, result>>

\* sefm_select: one iteration of `for f in func_fmap_map` (src lines 121-123)
SefmSelectWrite ==
    /\ pc = "paired"
    /\ write_iter < Len(pairing)
    /\ LET f == pairing[write_iter + 1].key
           io == insert_edit_json(IO, ReplaceNiiByJson(f), "IntendedFor", DictGet(pairing, f))
       IN /\ SetIO(io)
          /\ pc' = IF io.raised THEN "raised" ELSE "paired"
    /\ write_iter' = write_iter + 1
    /\ UNCHANGED <<layoutVars, mainVars, fmap_iter, func_iter, pairing>>

\* sefm_select: return selected_pos, selected_neg (src line 125)
SefmSelectReturn ==
    /\ pc = "paired"
    /\ write_iter = Len(pairing)
    /\ pc' = "returned"
    /\ UNCHANGED <<layoutVars, mainVars, closestVars, docs, log, writes, result>>

\* Mutant: the loop left after its first unit.
MainExhaustedAfterFirst == unit_i >= 1

\* main: the loops are exhausted
MainExhausted == unit_i = Len(subsess)

\* main: the move of the two `for` loops to the next (task, unit)
MainAdvance ==
    IF unit_i + 1 < Len(subsess)
    THEN unit_i' = unit_i + 1 /\ task_i' = task_i
    ELSE IF tasks # <<>> /\ task_i + 1 < Len(tasks)
    THEN unit_i' = 0 /\ task_i' = task_i + 1
    ELSE unit_i' = Len(subsess) /\ task_i' = task_i

\* main: one execution of the body of the loop over subsess (src lines 273-316)
MainIter ==
    /\ pc = "main"
    /\ ~MainExhausted
    /\ LET task == IF tasks = <<>> THEN 0 ELSE tasks[task_i + 1]
           sub == subsess[unit_i + 1]
           io == main_try(fmap, func, sub, task, strategy, debug, IO)
       IN /\ SetIO(io)
          /\ attempts' = Append(attempts,
                 [task |-> task, unit |-> sub, failed |-> io.raised, exc |-> io.exc])
    /\ MainAdvance
    /\ UNCHANGED <<layoutVars, closestVars, pc>>

\* main: return after the last unit (src line 316)
MainExit ==
    /\ pc = "main"
    /\ MainExhausted
    /\ pc' = "done"
    /\ UNCHANGED <<layoutVars, mainVars, closestVars, docs, log, writes, result>>

\* A call of FieldmapPairing(layout, subject, session).pair_by_last()
PairByLast ==
    /\ pc = "main"
    /\ attempts = <<>>
    /\ LET io == pair_by_last(fmap, func, subsess[1], 0, IO)
       IN /\ SetIO(io)
          /\ pc' = IF io.raised THEN "last_raised" ELSE "last_returned"
    /\ UNCHANGED <<layoutVars, mainVars, closestVars>>

\* A call of sefm_select(bids_dir, subject, sessions, fsl_dir, '', strategy, debug, layout)
SefmSelect ==
    /\ pc = "main"
    /\ attempts = <<>>
    /\ LET sel == sefm_select(fmap, func, subsess[1], 0, strategy, IO)
       IN /\ docs' = sel.io.docs
          /\ log' = sel.io.log
          /\ writes' = sel.io.writes
          /\ result' = [raised |-> sel.io.raised, exc |-> sel.io.exc,
                        pos |-> sel.pos, neg |-> sel.neg]
          /\ pc' = IF sel.io.raised THEN "sefm_raised" ELSE "sefm_returned"
    /\ UNCHANGED <<layoutVars, mainVars, closestVars>>

\* A call of insert_edit_json(json_path, 'IntendedFor', value)
InsertEditJson ==
    /\ pc = "upsert"
    /\ Len(writes) < MaxCalls
    /\ \E json_path \in DOMAIN docs \cup {SplitNiiAddJson(EmptyPath)} :
       \E value \in UpsertValues :
          LET io == insert_edit_json(IO, json_path, "IntendedFor", value)
          IN /\ SetIO(io)
             /\ pc' = IF io.raised THEN "raised" ELSE "upsert"
    /\ UNCHANGED <<layoutVars, mainVars, closestVars>>

NextPairing ==
    \/ SefmSelectBegin
    \/ PairByClosestIter
    \/ PairByClosestReturn
    \/ SefmSelectWrite
    \/ SefmSelectReturn

NextUnit == MainIter \/ MainExit \/ PairByLast \/ SefmSelect

NextBatch == MainIter \/ MainExit

NextUpsert == InsertEditJson

Spec == InitPairing /\ [][NextPairing]_vars
SpecTie == InitTie /\ [][NextPairing]_vars
SpecUnit == InitUnit /\ [][NextUnit]_vars
\* The control flow of the loops of main, apart from the work of the body: the
\* interpreter runs the sequential loop on, so its steps are taken when enabled.
MainControl ==
    /\ pc = "main"
    /\ IF MainExhausted
       THEN pc' = "done" /\ UNCHANGED <<unit_i, task_i>>
       ELSE pc' = pc /\ MainAdvance

SpecBatch == InitBatch /\ [][NextBatch]_vars /\ WF_<<unit_i, task_i, pc>>(MainControl)
SpecUpsert == InitUpsert /\ [][NextUpsert]_vars

----------------------------------------------------------------------------
(* Properties of pair_by_closest (Spec, SpecTie) *)

\* The fieldmap groups of the unit, their order keys, and the group an
\* acquisition is assigned to by the pairing built so far.
Sub == subsess[1]
Groups == get_fmap_runs(fmap, Sub, 0)
GroupKey(r) == min_series_number(fmap, Groups[r].value)
GroupPaths(r) == fmap_paths(Groups[r].value)
AssignedTo(j, r) ==
    \E e \in 1..Len(pairing) :
        pairing[e].key = FuncNii(j) /\ pairing[e].value = GroupPaths(r)
Paired == pc \in {"paired", "returned"}

\* C1: after pair_by_closest, with at least one fieldmap group, every
\* functional acquisition of the input is assigned to exactly one group.
C1_Coverage ==
    (Paired /\ Groups # <<>>) =>
        \A j \in 1..Len(func) :
            Cardinality({r \in 1..Len(Groups) : AssignedTo(j, r)}) = 1

DistinctGroupKeys ==
    \A r1, r2 \in 1..Len(Groups) : r1 # r2 => GroupKey(r1) # GroupKey(r2)
DistinctFuncKeys ==
    \A j1, j2 \in 1..Len(func) : j1 # j2 => func[j1].sn # func[j2].sn

\* The group acquired most recently at or before acquisition j, else the first group.
GroupAtOrBefore(j) ==
    LET before == {r \in 1..Len(Groups) : GroupKey(r) <= func[j].sn}
    IN IF before = {}
       THEN CHOOSE r \in 1..Len(Groups) : \A q \in 1..Len(Groups) : GroupKey(r) <= GroupKey(q)
       ELSE CHOOSE r \in before : \A q \in before : GroupKey(q) <= GroupKey(r)

C8_WriteTarget ==
    \A k \in 1..Len(writes) :
        /\ writes[k].path.kind = "fmap"
        /\ writes[k].path.ext = "json"
        /\ writes[k].field = "IntendedFor"
        /\ \A v \in 1..Len(writes[k].value) : writes[k].value[v].kind = "func"

\* One iteration of the loop of pair_by_closest that found the cursor before
\* the last group, and the key it processed.
IterBeforeLast ==
    /\ pc = "pairing" /\ pc' = "pairing"
    /\ func_iter' = func_iter + 1
    /\ fmap_iter < Len(fmap_keys(fmap, Sub)) - 1
IterKey == func_keys(func, Sub)[func_iter + 1]
NextGroupKey == fmap_keys(fmap, Sub)[fmap_iter + 2]
AssignedKey(g) == DictGet(fmap_series_nums(fmap, Sub), fmap_keys(fmap, Sub)[g + 1])
JustAssigned == pairing'[Len(pairing')].value

----------------------------------------------------------------------------
(* Properties of one unit (SpecUnit) *)

GroupsOfTwo == \A r \in 1..Len(Groups) : Len(Groups[r].value) = 2
OppositePolarities ==
    \A r \in 1..Len(Groups) :
        {fmap[Groups[r].value[k]].pol : k \in 1..Len(Groups[r].value)} = Polarities
WellFormedGroups ==
    Groups # <<>> /\ GroupsOfTwo /\ OppositePolarities /\ DistinctGroupKeys

\* The group acquired last in the session, and its files.
LastAcquiredGroup ==
    CHOOSE r \in 1..Len(Groups) : \A q \in 1..Len(Groups) : GroupKey(q) <= GroupKey(r)
LastAcquiredFiles ==
    {Groups[LastAcquiredGroup].value[k] : k \in 1..Len(Groups[LastAcquiredGroup].value)}

WrittenPaths == {writes[k].path : k \in 1..Len(writes)}
WholeFuncList(value) == [k \in 1..Len(value) |-> value[k].id] = Indices(func)
Attempted == pc # "main" \/ attempts # <<>>

\* C3: under last, with well-formed groups of distinct order keys, the group of
\* greatest order key, and no other, receives the entire acquisition list.
C3_LastIsGreatestKey ==
    /\ (WellFormedGroups /\
        (pc = "last_returned" \/ (strategy = "last" /\ ~debug /\ attempts # <<>>))) =>
          /\ WrittenPaths = {FmapJson(i) : i \in LastAcquiredFiles}
          /\ \A k \in 1..Len(writes) : WholeFuncList(writes[k].value)
    /\ (WellFormedGroups /\ strategy = "last" /\ pc = "sefm_returned") =>
          {result.pos, result.neg} = {FmapNii(i) : i \in LastAcquiredFiles}

\* C4: once a unit has been attempted, either every group by run id has exactly
\* two members, or the attempt failed with an error (of whatever class) and
\* wrote nothing.
C4_GroupsOfTwoOrError ==
    Attempted => (GroupsOfTwo \/ (result.raised /\ writes = <<>>))

\* C5: without fieldmaps, pairing under last or closest raises no error and the
\* unit writes no sidecar.
C5_EmptyFieldmapsNoError ==
    (fmap = <<>>) =>
        /\ pc # "last_raised"
        /\ (strategy \in {"last", "closest"}) =>
              /\ pc # "sefm_raised"
              /\ \A k \in 1..Len(attempts) : attempts[k].exc # "IndexError"
        /\ writes = <<>>

\* C9: with strategy eta_squared and a non-empty input, sefm_select never
\* returns normally, the unit fails with an error (of whatever class), and no
\* sidecar is written.
C9_EtaSquaredRaises ==
    (strategy = "eta_squared" /\ (fmap # <<>> \/ func # <<>>)) =>
        /\ pc # "sefm_returned"
        /\ \A k \in 1..Len(attempts) : attempts[k].failed
        /\ writes = <<>>

----------------------------------------------------------------------------
(* Properties of insert_edit_json (SpecUpsert) *)

LogCount(kind) == Cardinality({k \in 1..Len(log) : log[k].kind = kind})

\* Two calls in a row, same path and value, on a document that lacked the field.
TwiceSameValue ==
    /\ Len(writes) = 2
    /\ "IntendedFor" \notin DOMAIN writes[1].read
    /\ writes[1].path = writes[2].path
    /\ writes[1].value = writes[2].value

OtherKeysKept ==
    LET before == writes[1].read
        after == docs[writes[1].path]
    IN /\ DOMAIN after = DOMAIN before \cup {"IntendedFor"}
       /\ \A k \in DOMAIN before : after[k] = before[k]
       /\ after["IntendedFor"] = writes[1].value

\* C7 as stated: the two calls keep the other keys, leave the field equal to
\* V, and print one insertion message and no warning in total.
C7_OneInsertLog ==
    TwiceSameValue =>
        (OtherKeysKept /\ LogCount("insert") = 1 /\ LogCount("warning") = 0)

\* C7 amended: the two calls keep the other keys, leave the field equal to V,
\* and print no warning; each call prints an insertion message, two in total.
C7_TwoInsertLogs ==
    TwiceSameValue =>
        (OtherKeysKept /\ LogCount("insert") = 2 /\ LogCount("warning") = 0)

\* C7 witness: the second of two such calls has returned.
C7_CalledTwice == TwiceSameValue /\ pc = "upsert"

----------------------------------------------------------------------------
(* Properties of the batch loop of main (SpecBatch) *)

\* The executions of the try block the loops of main are to make, in order.
Schedule ==
    LET n == Len(subsess) IN
    IF tasks = <<>>
    THEN [k \in 1..n |-> [task |-> 0, unit |-> subsess[k]]]
    ELSE [k \in 1..(Len(tasks) * n) |->
             [task |-> tasks[((k - 1) \div n) + 1], unit |-> subsess[((k - 1) % n) + 1]]]

Executed == [k \in 1..Len(attempts) |-> [task |-> attempts[k].task, unit |-> attempts[k].unit]]

ErrorLines(u) == Cardinality({k \in 1..Len(log) : log[k].kind = "error" /\ log[k].unit = u})
Failures(u) == Cardinality({k \in 1..Len(attempts) : attempts[k].unit = u /\ attempts[k].failed})

\* C6 as stated: when main returns, every unit has been attempted exactly once,
\* in the order of subsess, and every failure has been logged with its unit.
C6_EachUnitOnce ==
    (pc = "done") =>
        /\ [k \in 1..Len(attempts) |-> attempts[k].unit] = subsess
        /\ \A u \in 1..Len(subsess) : ErrorLines(u) = Failures(u)

BatchSafe ==
    /\ Len(attempts) <= Len(Schedule)
    /\ Executed = SubSeq(Schedule, 1, Len(attempts))
    /\ (pc = "done") => (Executed = Schedule)
    /\ \A u \in 1..Len(subsess) : ErrorLines(u) = Failures(u)

\* C6 amended: every unit is attempted exactly once for each task label of the
\* task list (exactly once when there is no task list), in order; a failing
\* attempt is caught and logged with its unit, prevents no later attempt and is
\* not retried; main returns after the last attempt.
C6_BatchIsolation == []BatchSafe /\ <>(pc = "done")

\* C6 witness: main has returned from a batch of two task labels in which a
\* failed attempt was followed by a successful one.
C6_FailureThenSuccess ==
    /\ pc = "done"
    /\ Len(tasks) >= 2
    /\ \E i, j \in 1..Len(attempts) : i < j /\ attempts[i].failed /\ ~attempts[j].failed

====
